---- MODULE Spec2Model ----
(***************************************************************************)
(* A model of the CWT engines of Massiano/wasmDemo.                        *)
(*                                                                         *)
(*   - src/cwt-backup.ts : the header-driven engine (setAudioParams, the   *)
(*     batch computeCWT, computeSingleFreq, clearCWT);                     *)
(*   - src/cwt.ts, src/unnamed/part_000 (assembly/index.ts) and            *)
(*     src/unnamed/part_005 : three builds of the range computeCWT.        *)
(*                                                                         *)
(* Each file is a WebAssembly module of its own; a host instantiates one   *)
(* of them (variable engine) and calls its exports one at a time.          *)
(*                                                                         *)
(* 32-bit integers are kept as two's-complement values in                  *)
(* [-2^31, 2^31): an i32 is the value itself, a u32 x >= 2^31 is x - 2^32. *)
(* Floating-point numbers are kept in fixed point: an f64 is an integer    *)
(* number of 1/ONE, an f32 is an f64 that is a multiple of F32_STEP/ONE,   *)
(* so that <f32>x rounds and <f64>x is exact, as in the build.             *)
(***************************************************************************)
EXTENDS Integers, Sequences, FiniteSets, TLC

\* ------------------------------------------------------------------------
\* 32-bit integer arithmetic (WebAssembly i32.add, i32.sub, i32.mul,
\* i32.div_u and the unsigned comparisons), on two's-complement values.
\* ------------------------------------------------------------------------

TwoTo30 == 2^30

I32Min == (-TwoTo30) - TwoTo30

I32Max == TwoTo30 + (TwoTo30 - 1)

\* i32.add: a + b modulo 2^32.
Add32(a, b) ==
  IF a >= 0 /\ b >= 0 /\ a > I32Max - b
    THEN ((a - TwoTo30) - TwoTo30) + ((b - TwoTo30) - TwoTo30)
  ELSE IF a < 0 /\ b < 0 /\ a < I32Min - b
    THEN ((a + TwoTo30) + TwoTo30) + ((b + TwoTo30) + TwoTo30)
  ELSE a + b

Neg32(a) == IF a = I32Min THEN I32Min ELSE -a

\* i32.sub: a - b modulo 2^32.
Sub32(a, b) == Add32(a, Neg32(b))

\* i32.shr_u by one bit.
LShr1(b) == IF b >= 0 THEN b \div 2 ELSE ((b \div 2) + TwoTo30) + TwoTo30

\* i32.mul: a * b modulo 2^32 (shift and add over the bits of b).
RECURSIVE Mul32(_, _)
Mul32(a, b) ==
  IF b = 0 THEN 0
  ELSE IF a >= 0 /\ a < 2^15 /\ b >= 0 /\ b < 2^15 THEN a * b
  ELSE Add32(IF b % 2 = 1 THEN a ELSE 0, Mul32(Add32(a, a), LShr1(b)))

\* Unsigned comparisons (i32.lt_u, i32.gt_u).
ULt(a, b) == IF (a >= 0) = (b >= 0) THEN a < b ELSE b < 0

UGt(a, b) == ULt(b, a)

\* i32.div_u for b # 0 (b = 0 traps; the callers test it first).
UDiv(a, b) ==
  IF b < 0 THEN (IF ULt(a, b) THEN 0 ELSE 1)
  ELSE IF a >= 0 THEN a \div b
  ELSE LET h == LShr1(a) \div b
           q == Add32(h, h)
           r == Sub32(a, Mul32(q, b))
       IN  IF ULt(r, b) THEN q ELSE Add32(q, 1)

\* ------------------------------------------------------------------------
\* Floating point in fixed point.
\* ------------------------------------------------------------------------

\* One, as an f64: the model's f64 carries ten binary places.
ONE == 2^10

\* The spacing of the model's f32 values: an f32 carries fewer places than an
\* f64, so <f32>x rounds (to nearest, ties to even) and <f64>x is exact.
F32_STEP == 2^5

ToF32(x) ==
  LET q == x \div F32_STEP
      r == x % F32_STEP
  IN  IF 2 * r > F32_STEP \/ (2 * r = F32_STEP /\ q % 2 = 1)
        THEN (q + 1) * F32_STEP
        ELSE q * F32_STEP

\* f64 from an integer, and the integer ceiling of an f64 (Math.ceil).
FInt(n) == n * ONE

FCeil(x) == -((-x) \div ONE)

\* Rounded quotient n / d of integers, d > 0.
RoundDiv(n, d) == (n + d \div 2) \div d

\* a * b / ONE rounded, by the high and low parts of a and b (the product a * b
\* itself may not fit a 32-bit machine integer).
FMul(a, b) ==
  LET ah == a \div ONE
      al == a % ONE
      bh == b \div ONE
      bl == b % ONE
  IN  ah * bh * ONE + ah * bl + al * bh + RoundDiv(al * bl, ONE)

\* floor(r * 2^k / d) for 0 <= r < d, one bit per step.
RECURSIVE FracBits(_, _, _)
FracBits(r, d, k) ==
  IF k = 0 THEN 0
  ELSE LET r2 == 2 * r
       IN  (r2 \div d) * 2^(k - 1) + FracBits(r2 % d, d, k - 1)

\* a / b for a >= 0 and b > 0, rounded to the nearest 1/ONE (long division).
FDivPos(a, b) == ((a \div b) * (2 * ONE) + FracBits(a % b, b, 11) + 1) \div 2

FDiv(a, b) ==
  IF (a >= 0) = (b > 0) THEN FDivPos(IF a >= 0 THEN a ELSE -a, IF b > 0 THEN b ELSE -b)
  ELSE -FDivPos(IF a >= 0 THEN a ELSE -a, IF b > 0 THEN b ELSE -b)

\* Math.sqrt of an f64 >= 0: the integer square root of x * ONE.
RECURSIVE ISqrtFrom(_, _)
ISqrtFrom(n, r) == IF (r + 1) * (r + 1) > n THEN r ELSE ISqrtFrom(n, r + 1)

RECURSIVE ISqrt(_)
ISqrt(n) == IF n < 4 THEN ISqrtFrom(n, 0) ELSE ISqrtFrom(n, 2 * ISqrt(n \div 4))

FSqrt(x) == ISqrt(x * ONE)

\* ln 2, pi and log2(e) as f64.
LN2 == RoundDiv(69315 * ONE, 100000)

PI64 == RoundDiv(314159 * ONE, 100000)

LOG2E == RoundDiv(144270 * ONE, 100000)

\* Sum of the series term + term*x/k + term*x^2/(k(k+1)) + ... (n terms).
RECURSIVE ExpSeries(_, _, _, _)
ExpSeries(x, term, k, n) ==
  IF n = 0 THEN 0 ELSE term + ExpSeries(x, RoundDiv(term * x, k * ONE), k + 1, n - 1)

\* 2^q for an f64 q: 2^floor(q) * e^(frac(q) * ln 2).
Exp2(q) ==
  LET n == q \div ONE
      f == ExpSeries(FMul(q - n * ONE, LN2), ONE, 1, 8)
  IN  IF n >= 0 THEN f * 2^n ELSE IF n < -20 THEN 0 ELSE RoundDiv(f, 2^(-n))

\* Math.exp.
FExp(x) == Exp2(FMul(x, LOG2E))

\* Math.log2 of an f64 x > 0: the exponent of x, then one bit of the
\* fraction per squaring of the mantissa.
RECURSIVE Log2Frac(_, _)
Log2Frac(y, bit) ==
  IF bit = 0 THEN 0
  ELSE LET y2 == FMul(y, y)
       IN  IF y2 >= 2 * ONE THEN bit + Log2Frac(y2 \div 2, bit \div 2)
                            ELSE Log2Frac(y2, bit \div 2)

RECURSIVE FLog2(_)
FLog2(x) ==
  IF x >= 2 * ONE THEN ONE + FLog2(x \div 2)
  ELSE IF x < ONE THEN FLog2(2 * x) - ONE
  ELSE Log2Frac(x, ONE \div 2)

\* Math.pow(b, e) for b > 0.
FPow(b, e) == Exp2(FMul(e, FLog2(b)))

\* Math.cos and Math.sin: the argument reduced to [-pi, pi), then the series.
RECURSIVE TrigSeries(_, _, _, _)
TrigSeries(x2, term, k, n) ==
  IF n = 0 THEN 0
  ELSE term + TrigSeries(x2, -RoundDiv(term * x2, k * (k + 1) * ONE), k + 2, n - 1)

Reduce(x) == ((x + PI64) % (2 * PI64)) - PI64

FCos(x) == LET r == Reduce(x) IN TrigSeries(FMul(r, r), ONE, 1, 9)

FSin(x) == LET r == Reduce(x) IN TrigSeries(FMul(r, r), r, 2, 9)

\* The IEEE-754 bit pattern of an f32 (what a u32 load sees of it): sign,
\* biased exponent and 23 mantissa bits of the value v / ONE.
RECURSIVE BitLen(_)
BitLen(n) == IF n = 0 THEN 0 ELSE 1 + BitLen(n \div 2)

F32BitsPos(n) ==
  LET k == BitLen(n) - 1
      mant == IF k <= 23 THEN n * 2^(23 - k) - 2^23 ELSE (n \div 2^(k - 23)) - 2^23
  IN  (k - 10 + 127) * 2^23 + mant

F32Bits(v) ==
  IF v = 0 THEN 0
  ELSE IF v > 0 THEN F32BitsPos(v)
  ELSE I32Min + F32BitsPos(-v)

\* ------------------------------------------------------------------------
\* src/cwt-backup.ts: memory layout.
\* ------------------------------------------------------------------------

HEADER_SAMPLE_RATE == 0
HEADER_N_SAMPLES == 4
HEADER_N_FREQS == 8
HEADER_N_TIME_OUT == 12
HEADER_FREQ_MIN == 16
HEADER_FREQ_MAX == 20
HEADER_OMEGA0 == 24
HEADER_TIME_STEP == 28
HEADER_PROGRESS == 32
HEADER_STATUS == 36
HEADER_MAX_MAG == 40

AUDIO_START == 256
MAX_AUDIO_SAMPLES == 48000 * 300
CWT_START == AUDIO_START + MAX_AUDIO_SAMPLES * 4

STATUS_IDLE == 0
STATUS_RUNNING == 1
STATUS_DONE == 2
STATUS_ERROR == 3

\* The linear memory of the build: --initialMemory 8192 pages of 64 KiB.
INITIAL_MEMORY_PAGES == 8192
MEMORY_BYTES == INITIAL_MEMORY_PAGES * 65536

\* The header fields by the type their accessors load and store.
HeaderF32 == {HEADER_SAMPLE_RATE, HEADER_FREQ_MIN, HEADER_FREQ_MAX, HEADER_OMEGA0,
              HEADER_PROGRESS, HEADER_MAX_MAG}

HeaderU32 == {HEADER_N_SAMPLES, HEADER_N_FREQS, HEADER_N_TIME_OUT, HEADER_TIME_STEP,
              HEADER_STATUS}

HeaderFields == HeaderF32 \cup HeaderU32

\* A zone's contents: the cells that are not zero (fresh memory is zero).
Put(f, i, v) ==
  IF v = 0 THEN [j \in DOMAIN f \ {i} |-> f[j]]
  ELSE [j \in DOMAIN f \cup {i} |-> IF j = i THEN v ELSE f[j]]

Get(f, i) == IF i \in DOMAIN f THEN f[i] ELSE 0

Empty == [j \in {} |-> 0]

\* A 4-byte access at the u32 address addr traps when addr + 4 is past the
\* end of memory.
Traps(addr) == addr < 0 \/ addr > MEMORY_BYTES - 4

\* store<f32>(addr, v) on the memory m = [hdr, audio, grid], addr in memory.
\* A store below CWT_START lands in the audio zone or on a header field; a
\* u32 field then holds the bit pattern of v.
StoreF32(m, addr, v) ==
  IF addr >= CWT_START THEN [m EXCEPT !.grid = Put(@, (addr - CWT_START) \div 4, v)]
  ELSE IF addr >= AUDIO_START THEN [m EXCEPT !.audio = Put(@, (addr - AUDIO_START) \div 4, v)]
  ELSE IF addr \in HeaderF32 THEN [m EXCEPT !.hdr[addr] = v]
  ELSE IF addr \in HeaderU32 THEN [m EXCEPT !.hdr[addr] = F32Bits(v)]
  ELSE m

\* load<f32>(addr) for addr >= AUDIO_START in memory.
LoadF32(m, addr) ==
  IF addr >= CWT_START THEN Get(m.grid, (addr - CWT_START) \div 4)
  ELSE Get(m.audio, (addr - AUDIO_START) \div 4)

\* ------------------------------------------------------------------------
\* src/cwt-backup.ts: the wavelet and one output cell.
\* ------------------------------------------------------------------------

\* Morlet normalization constants of a call (lines 188-194, 277-283).
K_sigma(omega0) == FExp(FMul(FMul(-(ONE \div 2), omega0), omega0))

C_sigma(omega0) ==
  FPow(ONE + FExp(FMul(-omega0, omega0))
           - 2 * FExp(FMul(FMul(-((3 * ONE) \div 4), omega0), omega0)),
       -(ONE \div 2))

piNorm == FPow(PI64, -(ONE \div 4))

\* Scale in samples, wavelet support and normalization factor of a row.
Scale(omega0, freq, sampleRate) == FMul(FDiv(omega0, FMul(2 * PI64, freq)), sampleRate)

Support(scale) == FCeil(3 * scale)

Norm(scale) == FDiv(ONE, FSqrt(scale))

\* A boundary check that lets the index nSamples through.
OutsideAudioOffByOne(t, nSamples) == t < 0 \/ t > nSamples

\* Line 225: the sample index t is skipped.
OutsideAudio(t, nSamples) == t < 0 \/ t >= nSamples

\* The convolution loop over dt in dt..support: <<sumReal, sumImag>>. w holds
\* the constants computed before the loops: omega0, C_sigma * piNorm, K_sigma.
RECURSIVE Convolve(_, _, _, _, _, _, _)
Convolve(m, nSamples, t0, dt, support, scale, w) ==
  IF dt > support THEN <<0, 0>>
  ELSE
    LET t == Add32(t0, dt)
        rest == Convolve(m, nSamples, t0, dt + 1, support, scale, w)
    IN  IF OutsideAudio(t, nSamples) THEN rest
        ELSE
          LET x == LoadF32(m, Add32(AUDIO_START, Mul32(t, 4)))
              tau == FDiv(FInt(dt), scale)
              gaussian == FExp(FMul(FMul(-(ONE \div 2), tau), tau))
              phase == FMul(w.omega0, tau)
              cp == FMul(w.cp, gaussian)
              waveletReal == FMul(cp, FCos(phase) - w.K_sigma)
              waveletImag == FMul(cp, FSin(phase))
          IN  <<FMul(x, waveletReal) + rest[1], FMul(x, waveletImag) + rest[2]>>

\* The sample indices the convolution centred on t0 loads.
Loaded(nSamples, t0, support) ==
  {t \in {Add32(t0, dt) : dt \in (-support)..support} : ~OutsideAudio(t, nSamples)}

\* Lines 188-194: the wavelet constants.
Wavelet(omega0) ==
  [omega0 |-> omega0, cp |-> FMul(C_sigma(omega0), piNorm), K_sigma |-> K_sigma(omega0)]

\* The magnitude of the output cell centred on sample t0, as an f32.
Magnitude(m, sampleRate, nSamples, omega0, freq, t0) ==
  LET scale == Scale(omega0, freq, sampleRate)
      support == Support(scale)
      sums == Convolve(m, nSamples, t0, -support, support, scale, Wavelet(omega0))
  IN  ToF32(FMul(FSqrt(FMul(sums[1], sums[1]) + FMul(sums[2], sums[2])), Norm(scale)))

\* What a call does for one output cell: the cell, the address of its store,
\* the sample it is centred on, the sample indices it loads and the sample
\* count it bounds them by.
CellRecord(fi, ti, addr, sampleRate, nSamples, omega0, freq, t0) ==
  [fi |-> fi, ti |-> ti, addr |-> addr, t0 |-> t0, nSamples |-> nSamples,
   loads |-> Loaded(nSamples, t0, Support(Scale(omega0, freq, sampleRate)))]

\* The address of cell ti of the row of frequency index fi (lines 213, 252).
CellAddr(fi, nTimeOut, ti) ==
  Add32(Add32(CWT_START, Mul32(Mul32(fi, nTimeOut), 4)), Mul32(ti, 4))

\* ------------------------------------------------------------------------
\* State.
\* ------------------------------------------------------------------------

VARIABLES
  engine,    \* the module the host instantiated: "backup", "cwt", "index", "part5"
  mem,       \* cwt-backup.ts memory: [hdr, audio, grid]
  hostLen,   \* the number of audio samples the host wrote (the job's sample count)
  pc,        \* "host" between calls, else the position inside the batch computeCWT
  call,      \* the current (or last) call: its name and arguments
  loc,       \* the locals of the batch computeCWT
  cellLog,   \* the result stores of the current (or last) call: [fi, ti, addr]
  ret,       \* how the last call ended: [kind, value]
  snap,      \* the host's copy of the last finished batch: its arguments, inputs and grid
  freqs,     \* the frequency list the host wrote for the range computeCWT
  rlog,      \* the accesses of the last range computeCWT: [zone, base, n]
  nCalls     \* the number of calls of cwt-backup.ts made so far

vars == <<engine, mem, hostLen, pc, call, loc, cellLog, ret, snap, freqs, rlog, nCalls>>

\* ------------------------------------------------------------------------
\* Bounds and the values the host passes.
\* ------------------------------------------------------------------------

\* The number of calls the host makes.
MaxCalls == 3

\* The sample value the host writes (an f32).
Amp == 8 * ONE

\* The audio the host writes: the first samples of the zone.
AudioPatterns == {<<Amp, 0, 0>>}

SampleRateArgs == {0, 8 * ONE}

NSamplesArgs == {3, MAX_AUDIO_SAMPLES + 1}

BatchArgs ==
  [freqMin : {ONE}, freqMax : {ONE \div 2, ONE, 2 * ONE}, voicesPerOctave : {2},
   omega0 : {6 * ONE}, timeStep : {0, 2, -1}]

\* The frequency index whose one-cell row wraps around to address 0.
WrapToHeader == TwoTo30 - CWT_START \div 4

SingleArgs ==
  [freqIndex : {0, 1, WrapToHeader}, freq : {ONE, ToF32(FMul(ONE, FPow(2 * ONE, ONE \div 2)))},
   omega0 : {6 * ONE}, timeStep : {2}, nTimeOut : {0, 1, 2}]

ClearArgs == [nFreqs : {2, 65536}, nTimeOut : {2, 65536}]

\* ------------------------------------------------------------------------
\* src/cwt-backup.ts: header access.
\* ------------------------------------------------------------------------

SetHdr(m, field, v) == [m EXCEPT !.hdr[field] = v]

getSampleRate == mem.hdr[HEADER_SAMPLE_RATE]
getNSamples == mem.hdr[HEADER_N_SAMPLES]
getNFreqs == mem.hdr[HEADER_N_FREQS]
getNTimeOut == mem.hdr[HEADER_N_TIME_OUT]
getProgress == mem.hdr[HEADER_PROGRESS]
getStatus == mem.hdr[HEADER_STATUS]
getMaxMag == mem.hdr[HEADER_MAX_MAG]

Returned(v) == [kind |-> "return", value |-> v]

Trapped == [kind |-> "trap", value |-> 0]

InCall == [kind |-> "running", value |-> 0]

NoLoc == [sampleRate |-> 0, nSamples |-> 0, nFreqs |-> 0, nTimeOut |-> 0,
          fi |-> 0, ti |-> 0, globalMaxMag |-> 0]

NoSnap == [valid |-> FALSE]

NoCall == [name |-> "none", args |-> <<>>]

HostMayCall(e) == engine = e /\ pc = "host" /\ nCalls < MaxCalls

\* ------------------------------------------------------------------------
\* The host writes the audio zone.
\* ------------------------------------------------------------------------

AudioOf(p) == [i \in {j \in 0..(Len(p) - 1) : p[j + 1] # 0} |-> p[i + 1]]

HostWriteAudio(p) ==
  /\ engine = "backup"
  /\ pc = "host"
  /\ nCalls = 0
  /\ mem' = [mem EXCEPT !.audio = AudioOf(p)]
  /\ hostLen' = Len(p)
  /\ UNCHANGED <<engine, pc, call, loc, cellLog, ret, snap, freqs, rlog, nCalls>>

\* ------------------------------------------------------------------------
\* src/cwt-backup.ts: setAudioParams.
\* ------------------------------------------------------------------------

\* A setAudioParams that stores its arguments before it checks the capacity.
SetAudioParamsStoreFirst(m, sampleRate, nSamples) ==
  SetHdr(SetHdr(SetHdr(m, HEADER_SAMPLE_RATE, sampleRate), HEADER_N_SAMPLES, nSamples),
         HEADER_STATUS, IF UGt(nSamples, MAX_AUDIO_SAMPLES) THEN STATUS_ERROR ELSE STATUS_IDLE)

SetAudioParamsMem(m, sampleRate, nSamples) ==
  IF UGt(nSamples, MAX_AUDIO_SAMPLES)
    THEN SetHdr(m, HEADER_STATUS, STATUS_ERROR)
    ELSE SetHdr(SetHdr(SetHdr(m, HEADER_SAMPLE_RATE, sampleRate),
                       HEADER_N_SAMPLES, nSamples),
                HEADER_STATUS, STATUS_IDLE)

setAudioParams(sampleRate, nSamples) ==
  /\ HostMayCall("backup")
  /\ mem' = SetAudioParamsMem(mem, sampleRate, nSamples)
  /\ call' = [name |-> "setAudioParams",
              args |-> [sampleRate |-> sampleRate, nSamples |-> nSamples]]
  /\ cellLog' = {}
  /\ ret' = Returned(0)
  /\ nCalls' = nCalls + 1
  /\ UNCHANGED <<engine, hostLen, pc, loc, snap, freqs, rlog>>

\* ------------------------------------------------------------------------
\* src/cwt-backup.ts: the batch computeCWT, one step per statement group.
\* ------------------------------------------------------------------------

\* Lines 161-162: the call begins.
BatchEnterMem(m) == SetHdr(SetHdr(m, HEADER_STATUS, STATUS_RUNNING), HEADER_PROGRESS, 0)

BatchEnter(a) ==
  /\ HostMayCall("backup")
  /\ mem' = BatchEnterMem(mem)
  /\ call' = [name |-> "computeCWT", args |-> a]
  /\ pc' = "entered"
  /\ loc' = NoLoc
  /\ cellLog' = {}
  /\ ret' = InCall
  /\ nCalls' = nCalls + 1
  /\ UNCHANGED <<engine, hostLen, snap, freqs, rlog>>

\* Line 167: the validation of the stored audio parameters.
BatchInvalid(sampleRate, nSamples) == sampleRate <= 0 \/ nSamples = 0

\* Lines 173-176: the parameters are stored.
BatchStoreParams(m, a) ==
  SetHdr(SetHdr(SetHdr(SetHdr(m, HEADER_FREQ_MIN, a.freqMin), HEADER_FREQ_MAX, a.freqMax),
                HEADER_OMEGA0, a.omega0),
         HEADER_TIME_STEP, a.timeStep)

\* A failed validation that comes after the parameters are stored.
BatchFailAfterParams(m, a) == SetHdr(BatchStoreParams(m, a), HEADER_STATUS, STATUS_ERROR)

\* Lines 168-169: the validation failed.
BatchFail(m, a) == SetHdr(m, HEADER_STATUS, STATUS_ERROR)

\* Lines 179-180: Math.ceil(numOctaves * voicesPerOctave), before the cast.
CeilOctaves(a) == FCeil(FMul(FLog2(FDiv(a.freqMax, a.freqMin)), FInt(a.voicesPerOctave)))

\* Line 184: the output time points (timeStep # 0).
NTimeOut(nSamples, timeStep) == UDiv(Add32(Add32(nSamples, timeStep), -1), timeStep)

\* Lines 164-196. The cast <u32> of a negative f64 traps or saturates to 0,
\* as the build's float-to-int conversion does; the division by a zero
\* timeStep traps.
BatchSetup ==
  /\ pc = "entered"
  /\ LET a == call.args
         sampleRate == getSampleRate
         nSamples == getNSamples
         m1 == BatchStoreParams(mem, a)
         c == CeilOctaves(a)
         m2 == SetHdr(m1, HEADER_N_FREQS, IF c < 0 THEN 0 ELSE c)
         nTimeOut == NTimeOut(nSamples, a.timeStep)
     IN  IF BatchInvalid(sampleRate, nSamples)
           THEN /\ mem' = BatchFail(mem, a)
                /\ pc' = "host"
                /\ ret' = Returned(0)
                /\ loc' = loc
         ELSE \/ /\ c < 0
                 /\ mem' = m1
                 /\ pc' = "host"
                 /\ ret' = Trapped
                 /\ loc' = loc
              \/ /\ a.timeStep = 0
                 /\ mem' = m2
                 /\ pc' = "host"
                 /\ ret' = Trapped
                 /\ loc' = loc
              \/ /\ a.timeStep # 0
                 /\ mem' = SetHdr(m2, HEADER_N_TIME_OUT, nTimeOut)
                 /\ pc' = "rows"
                 /\ ret' = ret
                 /\ loc' = [sampleRate |-> sampleRate, nSamples |-> nSamples,
                            nFreqs |-> IF c < 0 THEN 0 ELSE c, nTimeOut |-> nTimeOut,
                            fi |-> 0, ti |-> 0, globalMaxMag |-> 0]
  /\ UNCHANGED <<engine, hostLen, call, cellLog, snap, freqs, rlog, nCalls>>

\* Line 201: the log-spaced frequency of row fi, an f64.
BatchFreq(a, fi) ==
  FMul(a.freqMin, FPow(2 * ONE, FDiv(FInt(fi), FInt(a.voicesPerOctave))))

\* A maximum that keeps the last magnitude.
TrackLast(mag, maxMag) == mag

\* Lines 249, 316: the running maximum.
TrackMax(mag, maxMag) == IF mag > maxMag THEN mag ELSE maxMag

\* Lines 216-253: one pass of the loop over the output time points.
BatchCell ==
  /\ pc = "rows"
  /\ ULt(loc.fi, loc.nFreqs)
  /\ ULt(loc.ti, loc.nTimeOut)
  /\ LET a == call.args
         t0 == Mul32(loc.ti, a.timeStep)
         mag == Magnitude(mem, loc.sampleRate, loc.nSamples, a.omega0,
                          BatchFreq(a, loc.fi), t0)
         addr == CellAddr(loc.fi, loc.nTimeOut, loc.ti)
     IN  /\ cellLog' = cellLog \cup {CellRecord(loc.fi, loc.ti, addr, loc.sampleRate,
                                                loc.nSamples, a.omega0,
                                                BatchFreq(a, loc.fi), t0)}
         /\ IF Traps(addr)
              THEN /\ mem' = mem
                   /\ pc' = "host"
                   /\ ret' = Trapped
                   /\ loc' = loc
              ELSE /\ mem' = StoreF32(mem, addr, mag)
                   /\ pc' = pc
                   /\ ret' = ret
                   /\ loc' = [loc EXCEPT !.ti = Add32(@, 1),
                                         !.globalMaxMag = TrackMax(mag, @)]
  /\ UNCHANGED <<engine, hostLen, call, snap, freqs, rlog, nCalls>>

\* A progress computed from the index of the row, not the rows completed.
RowProgressBefore(fi, nFreqs) == ToF32(FDiv(FInt(fi), FInt(nFreqs)))

\* Line 256: the progress after row fi.
RowProgress(fi, nFreqs) == ToF32(FDiv(FInt(fi + 1), FInt(nFreqs)))

\* Lines 255-257: the row is complete.
BatchRowEnd ==
  /\ pc = "rows"
  /\ ULt(loc.fi, loc.nFreqs)
  /\ ~ULt(loc.ti, loc.nTimeOut)
  /\ mem' = SetHdr(mem, HEADER_PROGRESS, RowProgress(loc.fi, loc.nFreqs))
  /\ loc' = [loc EXCEPT !.fi = Add32(@, 1), !.ti = 0]
  /\ UNCHANGED <<engine, hostLen, pc, call, cellLog, ret, snap, freqs, rlog, nCalls>>

\* A batch whose loop over the frequencies ends after the row in progress.
BatchStoreMaxEarly ==
  /\ pc = "rows"
  /\ ~ULt(loc.ti, loc.nTimeOut)
  /\ mem' = SetHdr(mem, HEADER_MAX_MAG, loc.globalMaxMag)
  /\ pc' = "maxStored"
  /\ UNCHANGED <<engine, hostLen, call, loc, cellLog, ret, snap, freqs, rlog, nCalls>>

\* Line 259.
BatchStoreMax ==
  /\ pc = "rows"
  /\ ~ULt(loc.fi, loc.nFreqs)
  /\ mem' = SetHdr(mem, HEADER_MAX_MAG, loc.globalMaxMag)
  /\ pc' = "maxStored"
  /\ UNCHANGED <<engine, hostLen, call, loc, cellLog, ret, snap, freqs, rlog, nCalls>>

\* Line 260, and the return to the host, which keeps what the batch left.
BatchSetDone ==
  /\ pc = "maxStored"
  /\ mem' = SetHdr(mem, HEADER_STATUS, STATUS_DONE)
  /\ pc' = "host"
  /\ ret' = Returned(0)
  /\ snap' = [valid |-> TRUE, args |-> call.args, mem |-> mem']
  /\ UNCHANGED <<engine, hostLen, call, loc, cellLog, freqs, rlog, nCalls>>

\* ------------------------------------------------------------------------
\* src/cwt-backup.ts: computeSingleFreq.
\* ------------------------------------------------------------------------

\* Lines 294-319: the loop over the output time points from ti on. The result
\* is the memory, the row maximum, the stores made and whether a store trapped.
RECURSIVE SingleFreqLoop(_, _, _, _, _, _, _)
SingleFreqLoop(m, a, sampleRate, nSamples, ti, maxMag, log) ==
  IF ~ULt(ti, a.nTimeOut)
    THEN [mem |-> m, maxMag |-> maxMag, log |-> log, trap |-> FALSE]
  ELSE
    LET t0 == Mul32(ti, a.timeStep)
        mag == Magnitude(m, sampleRate, nSamples, a.omega0, a.freq, t0)
        addr == CellAddr(a.freqIndex, a.nTimeOut, ti)
        log1 == log \cup {CellRecord(a.freqIndex, ti, addr, sampleRate, nSamples,
                                     a.omega0, a.freq, t0)}
    IN  IF Traps(addr)
          THEN [mem |-> m, maxMag |-> maxMag, log |-> log1, trap |-> TRUE]
          ELSE SingleFreqLoop(StoreF32(m, addr, mag), a, sampleRate, nSamples,
                              Add32(ti, 1), TrackMax(mag, maxMag), log1)

\* Lines 274-321. The audio parameters are read from the header once.
SingleFreqRun(m, a) ==
  SingleFreqLoop(m, a, m.hdr[HEADER_SAMPLE_RATE], m.hdr[HEADER_N_SAMPLES], 0, 0, {})

\* The model follows the calls whose scale is a positive finite number (a
\* stored sample rate > 0); the others compute on NaN.
computeSingleFreq(a) ==
  /\ HostMayCall("backup")
  /\ getSampleRate > 0
  /\ LET r == SingleFreqRun(mem, a)
     IN  /\ mem' = r.mem
         /\ cellLog' = r.log
         /\ ret' = IF r.trap THEN Trapped ELSE Returned(r.maxMag)
  /\ call' = [name |-> "computeSingleFreq", args |-> a]
  /\ nCalls' = nCalls + 1
  /\ UNCHANGED <<engine, hostLen, pc, loc, snap, freqs, rlog>>

\* ------------------------------------------------------------------------
\* src/cwt-backup.ts: clearCWT.
\* ------------------------------------------------------------------------

\* Line 329: the byte count, a 32-bit usize.
ClearBytes(nFreqs, nTimeOut) == Mul32(Mul32(nFreqs, nTimeOut), 4)

\* memory.fill(CWT_START, 0, n) traps, writing nothing, when CWT_START + n is
\* past the end of memory.
FillTraps(n) == n < 0 \/ n > MEMORY_BYTES - CWT_START

\* Lines 330-333, the fill in memory.
ClearMem(m, nFreqs, nTimeOut) ==
  LET cells == ClearBytes(nFreqs, nTimeOut) \div 4
      g == [j \in {i \in DOMAIN m.grid : i >= cells} |-> m.grid[j]]
  IN  SetHdr(SetHdr(SetHdr([m EXCEPT !.grid = g], HEADER_MAX_MAG, 0),
                    HEADER_PROGRESS, 0),
             HEADER_STATUS, STATUS_IDLE)

clearCWT(a) ==
  /\ HostMayCall("backup")
  /\ IF FillTraps(ClearBytes(a.nFreqs, a.nTimeOut))
       THEN mem' = mem /\ ret' = Trapped
       ELSE mem' = ClearMem(mem, a.nFreqs, a.nTimeOut) /\ ret' = Returned(0)
  /\ call' = [name |-> "clearCWT", args |-> a]
  /\ cellLog' = {}
  /\ nCalls' = nCalls + 1
  /\ UNCHANGED <<engine, hostLen, pc, loc, snap, freqs, rlog>>

\* ------------------------------------------------------------------------
\* The range computeCWT: src/cwt.ts ("cwt"), assembly/index.ts in
\* src/unnamed/part_000 ("index") and src/unnamed/part_005 ("part5").
\* ------------------------------------------------------------------------

MEMORY_OFFSET == 1024 * 1024
AUDIO_BUFFER_SIZE == 57600000
FREQ_BUFFER_SIZE == 10000 * 4
KERNEL_BUFFER_SIZE == 1000000
MAX_AUDIO_DURATION_SEC == 300
DEBUG_BUFFER_SIZE == 1024
MAX_MEMORY_LIMIT == 500 * 1024 * 1024

\* The layout of build e: cwt.ts starts at MEMORY_OFFSET, index.ts at 0.
PTR_AUDIO(e) == IF e = "index" THEN 0 ELSE MEMORY_OFFSET
PTR_FREQS(e) == PTR_AUDIO(e) + AUDIO_BUFFER_SIZE
PTR_KERNEL(e) == PTR_FREQS(e) + FREQ_BUFFER_SIZE
PTR_OUTPUT(e) == PTR_KERNEL(e) + KERNEL_BUFFER_SIZE
PTR_DEBUG == PTR_OUTPUT("cwt") + MAX_AUDIO_DURATION_SEC * 48000 * 10
AVAILABLE_OUTPUT_MEM(e) == MAX_MEMORY_LIMIT - PTR_OUTPUT(e)

\* The byte ranges [base, end) behind the exported base pointers of build e
\* (cwt.ts lines 17-35, part_000 lines 101-118): the output zone has the
\* capacity AVAILABLE_OUTPUT_MEM, and cwt.ts also has the diagnostic area.
Zones(e) ==
  {[zone |-> "audio", base |-> PTR_AUDIO(e), end |-> PTR_AUDIO(e) + AUDIO_BUFFER_SIZE],
   [zone |-> "freqs", base |-> PTR_FREQS(e), end |-> PTR_FREQS(e) + FREQ_BUFFER_SIZE],
   [zone |-> "kernel", base |-> PTR_KERNEL(e), end |-> PTR_KERNEL(e) + KERNEL_BUFFER_SIZE],
   [zone |-> "output", base |-> PTR_OUTPUT(e), end |-> PTR_OUTPUT(e) + AVAILABLE_OUTPUT_MEM(e)]}
  \cup (IF e = "cwt"
          THEN {[zone |-> "debug", base |-> PTR_DEBUG, end |-> PTR_DEBUG + DEBUG_BUFFER_SIZE]}
          ELSE {})

\* part_005.
MEM_LIMIT == 524288000
FREQ_LIST_PTR == 1024
AUDIO_PTR == 65536
OUTPUT_PTR == 64000000

\* The hard-coded bound of the sample index (cwt.ts line 101, part_000 line
\* 185, part_005 line 41).
SAMPLE_LIMIT == 14400000

OMEGA_0 == 6 * ONE
SAMPLE_RATE == 48000 * ONE

\* The frequencies the host writes: 1 Hz and 440 Hz.
FreqValues == {ONE, 440 * ONE}

MaxFreqs == 2

\* cwt.ts lines 53-57, part_000 lines 150-158: scale, half width, kernel length.
RangeScale(freq) == FDiv(FMul(OMEGA_0, SAMPLE_RATE), FMul(FMul(2 * ONE, PI64), freq))

HalfWidth(freq) == FCeil(FMul(RangeScale(freq), (5 * ONE) \div 2))

KernelLen(freq) == Add32(Mul32(HalfWidth(freq), 2), 1)

\* part_005 lines 27-31: the window, truncated to an i32.
Window(freq) ==
  FMul(FMul(3 * ONE, FDiv(OMEGA_0, FMul(FMul(2 * ONE, PI64), freq))), SAMPLE_RATE) \div ONE

\* The memory the range builds run in ends at their stated limit.
RangeMemoryBytes(e) == IF e = "part5" THEN MEM_LIMIT ELSE MAX_MEMORY_LIMIT

Store(zone, lo, hi) == [op |-> "store", zone |-> zone, lo |-> lo, hi |-> hi]

Load(lo, hi) == [op |-> "load", zone |-> "audio", lo |-> lo, hi |-> hi]

\* The result stores of one row: count f32 stores from address base on, each
\* trapping when it reaches past the end of memory. `done` stores succeed.
RowFit(base, limit) == IF base >= limit THEN 0 ELSE (limit - base) \div 4

RowDone(base, count, limit) ==
  IF count <= RowFit(base, limit) THEN count ELSE RowFit(base, limit)

RowStores(base, count, limit) ==
  IF RowDone(base, count, limit) = 0 THEN {}
  ELSE {Store("output", base, base + 4 * RowDone(base, count, limit) - 1)}

\* The boundary check of the sample index (cwt.ts line 101, part_000 line
\* 185, part_005 line 41).
InBuffer(sampleIdx) == sampleIdx >= 0 /\ sampleIdx < SAMPLE_LIMIT

\* The audio loads of the convolutions centred on tStart .. tStart+count-1
\* with a window of hw samples on each side: the indices sampleIdx of
\* [tStart - hw, tStart + count - 1 + hw] with InBuffer(sampleIdx).
AudioLoads(tStart, count, hw) ==
  LET first == tStart - hw
      last == tStart + (count - 1) + hw
      lo == IF InBuffer(first) THEN first ELSE 0
      hi == IF InBuffer(last) THEN last ELSE SAMPLE_LIMIT - 1
  IN  IF count <= 0 \/ last < 0 \/ first >= SAMPLE_LIMIT THEN {} ELSE {Load(lo, hi)}

\* The time steps the loop `for (t = tStart; t < tEnd; t++)` makes.
Steps(tStart, tEnd) == IF tStart < tEnd THEN tEnd - tStart ELSE 0

\* cwt.ts lines 64-69, 84-87, 111-113, 126-129: the diagnostic stores of the
\* first frequency.
DebugStores(tStart, steps) ==
  {Store("debug", PTR_DEBUG, PTR_DEBUG + 15), Store("debug", PTR_DEBUG + 16, PTR_DEBUG + 23)}
  \cup (IF steps > 0 /\ InBuffer(tStart)
          THEN {Store("debug", PTR_DEBUG + 24, PTR_DEBUG + 27)} ELSE {})
  \cup (IF steps > 0 THEN {Store("debug", PTR_DEBUG + 28, PTR_DEBUG + 35)} ELSE {})

\* cwt.ts lines 48-134, part_000 lines 143-211: the loop over the frequencies
\* from fIdx on, with the output cursor. The result is the accesses made and
\* whether a store trapped.
RECURSIVE RangeRows(_, _, _, _, _)
RangeRows(e, a, fIdx, outputCursor, log) ==
  IF fIdx >= a.numFreqs THEN [log |-> log, trap |-> FALSE]
  ELSE
    LET freq == freqs[fIdx + 1]
        halfWidth == HalfWidth(freq)
        kernelLen == KernelLen(freq)
        steps == Steps(a.tStart, a.tEnd)
        limit == RangeMemoryBytes(e)
        done == RowDone(outputCursor, steps, limit)
        trap == done < steps
        log1 == log
                \cup (IF e = "cwt" /\ fIdx = 0 THEN DebugStores(a.tStart, steps) ELSE {})
                \cup {Store("kernel", PTR_KERNEL(e), PTR_KERNEL(e) + 8 * kernelLen - 1)}
                \cup AudioLoads(a.tStart, IF trap THEN done + 1 ELSE done, halfWidth)
                \cup RowStores(outputCursor, steps, limit)
    IN  IF trap THEN [log |-> log1, trap |-> TRUE]
        ELSE RangeRows(e, a, fIdx + 1, outputCursor + 4 * steps, log1)

\* cwt.ts lines 37-136.
CwtRun(a) ==
  LET duration == Sub32(a.tEnd, a.tStart)
  IN  IF duration <= 0 \/ a.numFreqs <= 0 THEN [ret |-> Returned(-2), log |-> {}]
      ELSE LET r == RangeRows("cwt", a, 0, PTR_OUTPUT("cwt"), {})
           IN  [ret |-> IF r.trap THEN Trapped ELSE Returned(0), log |-> r.log]

\* part_000 lines 128-214.
IndexRun(a) ==
  LET duration == Sub32(a.tEnd, a.tStart)
      neededBytes == Mul32(Mul32(duration, a.numFreqs), 4)
  IN  IF duration <= 0 \/ a.numFreqs <= 0 THEN [ret |-> Returned(-2), log |-> {}]
      ELSE IF neededBytes > AVAILABLE_OUTPUT_MEM("index")
        THEN [ret |-> Returned(-1), log |-> {}]
      ELSE LET r == RangeRows("index", a, 0, PTR_OUTPUT("index"), {})
           IN  [ret |-> IF r.trap THEN Trapped ELSE Returned(0), log |-> r.log]

\* part_005 lines 25-65: the loop over the frequencies from fIdx on.
RECURSIVE Part5Rows(_, _, _)
Part5Rows(a, fIdx, log) ==
  IF ~ULt(fIdx, a.numFreqs) THEN [log |-> log, trap |-> FALSE]
  ELSE
    LET freq == freqs[fIdx + 1]
        numSamples == Sub32(a.tEnd, a.tStart)
        steps == IF ULt(a.tStart, a.tEnd) THEN numSamples ELSE 0
        outOffset == Add32(OUTPUT_PTR, Mul32(Mul32(fIdx, numSamples), 4))
        done == RowDone(outOffset, steps, MEM_LIMIT)
        trap == done < steps
        log1 == log
                \cup AudioLoads(a.tStart, IF trap THEN done + 1 ELSE done, Window(freq))
                \cup RowStores(outOffset, steps, MEM_LIMIT)
    IN  IF trap THEN [log |-> log1, trap |-> TRUE]
        ELSE Part5Rows(a, fIdx + 1, log1)

\* part_005 lines 7-67.
Part5Run(a) ==
  LET numSamples == Sub32(a.tEnd, a.tStart)
      totalOutputSize == Mul32(Mul32(numSamples, a.numFreqs), 4)
  IN  IF UGt(Add32(OUTPUT_PTR, totalOutputSize), MEM_LIMIT)
        THEN [ret |-> Returned(-1), log |-> {}]
      ELSE LET r == Part5Rows(a, 0, {})
           IN  [ret |-> IF r.trap THEN Trapped ELSE Returned(0), log |-> r.log]

RangeEngines == {"cwt", "index", "part5"}

\* The arguments the host passes to the range computeCWT.
RangeArgs ==
  [tStart : {0, 5, I32Max}, tEnd : {0, 5, 8, I32Min, 2^28, 2^29},
   numFreqs : (-1)..MaxFreqs, outputMode : {0, 1}]

\* part_005 reads its parameters as u32 and its host passes a frequency count.
Part5Args ==
  [tStart : {0, 5}, tEnd : {0, 5, 8, 2^28, TwoTo30}, numFreqs : 0..MaxFreqs,
   outputMode : {0, 1}]

\* The sample counts of the audio the host loads for the range computeCWT.
HostLens == {3, 48000}

\* The host writes the frequency list and n samples of audio before its calls.
HostLoad(fs, n) ==
  /\ engine \in RangeEngines
  /\ call = NoCall
  /\ freqs' = fs
  /\ hostLen' = n
  /\ UNCHANGED <<engine, mem, pc, call, loc, cellLog, ret, snap, rlog, nCalls>>

RangeCall(e, a, r) ==
  /\ engine = e
  /\ a.numFreqs <= Len(freqs)
  /\ ret' = r.ret
  /\ rlog' = r.log
  /\ call' = [name |-> "computeCWT", args |-> a]
  /\ UNCHANGED <<engine, mem, hostLen, pc, loc, cellLog, snap, freqs, nCalls>>

cwtComputeCWT(a) == RangeCall("cwt", a, CwtRun(a))

indexComputeCWT(a) == RangeCall("index", a, IndexRun(a))

part5ComputeCWT(a) == RangeCall("part5", a, Part5Run(a))

\* ------------------------------------------------------------------------
\* The specification.
\* ------------------------------------------------------------------------

Engines == {"backup"} \cup RangeEngines

Init ==
  /\ engine \in Engines
  /\ mem = [hdr |-> [f \in HeaderFields |-> 0], audio |-> Empty, grid |-> Empty]
  /\ hostLen = 0
  /\ pc = "host"
  /\ call = NoCall
  /\ loc = NoLoc
  /\ cellLog = {}
  /\ ret = Returned(0)
  /\ snap = NoSnap
  /\ freqs = <<>>
  /\ rlog = {}
  /\ nCalls = 0

Next ==
  \/ \E p \in AudioPatterns : HostWriteAudio(p)
  \/ \E sampleRate \in SampleRateArgs, nSamples \in NSamplesArgs :
       setAudioParams(sampleRate, nSamples)
  \/ \E a \in BatchArgs : BatchEnter(a)
  \/ BatchSetup
  \/ BatchCell
  \/ BatchRowEnd
  \/ BatchStoreMax
  \/ BatchSetDone
  \/ \E a \in SingleArgs : computeSingleFreq(a)
  \/ \E a \in ClearArgs : clearCWT(a)
  \/ \E fs \in [1..MaxFreqs -> FreqValues], n \in HostLens : HostLoad(fs, n)
  \/ \E a \in RangeArgs : cwtComputeCWT(a)
  \/ \E a \in RangeArgs : indexComputeCWT(a)
  \/ \E a \in Part5Args : part5ComputeCWT(a)

Spec == Init /\ [][Next]_vars

\* ------------------------------------------------------------------------
\* The status machine of cwt-backup.ts.
\* ------------------------------------------------------------------------

\* C1: the status field only moves along Idle -> Running -> {Done, Error}:
\* Running is entered only from Idle, Done and the Error of the validation
\* only from Running, and a status Done or Error stays until clearCWT or a
\* successful setAudioParams puts Idle back (setAudioParams may also set
\* Error from any status).
C1_StatusMachine ==
  [][getStatus' # getStatus =>
       \/ getStatus' = STATUS_IDLE /\ call'.name \in {"clearCWT", "setAudioParams"}
       \/ getStatus' = STATUS_ERROR /\ call'.name = "setAudioParams"
       \/ getStatus = STATUS_IDLE /\ getStatus' = STATUS_RUNNING
       \/ getStatus = STATUS_RUNNING /\ getStatus' \in {STATUS_DONE, STATUS_ERROR}]_vars

\* The batch computeCWT has returned with the status Done.
BatchDone == call.name = "computeCWT" /\ pc = "host" /\ getStatus = STATUS_DONE

\* C2: when the batch computeCWT has set the status Done, the call passed the
\* validation and stored every cell (fi, ti) with fi < nFreqs and ti <
\* nTimeOut, the values it recorded in the header, and the max-magnitude was
\* stored while the status was still Running.
C2_DoneAfterFullPass ==
  /\ BatchDone =>
       /\ loc.sampleRate > 0 /\ loc.nSamples # 0
       /\ loc.nFreqs = getNFreqs /\ loc.nTimeOut = getNTimeOut
       /\ \A fi \in 0..(getNFreqs - 1), ti \in 0..(getNTimeOut - 1) :
            \E c \in cellLog :
              c.fi = fi /\ c.ti = ti /\ c.addr = CWT_START + (fi * getNTimeOut + ti) * 4
       /\ getMaxMag = loc.globalMaxMag
  /\ pc = "maxStored" => getStatus = STATUS_RUNNING /\ getMaxMag = loc.globalMaxMag

\* A batch of two rows of two cells has finished.
C2_Witness == BatchDone /\ getNFreqs = 2 /\ getNTimeOut = 2 /\ Cardinality(cellLog) = 4

\* C3: whenever the status is Running or Done, the stored sample rate and
\* the stored sample count are positive.
C3_AudioParamsWhenActive ==
  getStatus \in {STATUS_RUNNING, STATUS_DONE} => getSampleRate > 0 /\ getNSamples # 0

\* A step of setAudioParams.
SetAudioParamsStep == nCalls' = nCalls + 1 /\ call'.name = "setAudioParams"

\* C4: setAudioParams with a sample count above MAX_AUDIO_SAMPLES sets the
\* status Error and leaves the stored sample rate and count; otherwise it
\* stores both and sets the status Idle; it changes no other header field
\* and no audio or output cell.
C4_SetAudioParams ==
  [][SetAudioParamsStep =>
       /\ IF UGt(call'.args.nSamples, MAX_AUDIO_SAMPLES)
            THEN /\ getStatus' = STATUS_ERROR
                 /\ getSampleRate' = getSampleRate
                 /\ getNSamples' = getNSamples
            ELSE /\ getStatus' = STATUS_IDLE
                 /\ getSampleRate' = call'.args.sampleRate
                 /\ getNSamples' = call'.args.nSamples
       /\ \A f \in HeaderFields \ {HEADER_STATUS, HEADER_SAMPLE_RATE, HEADER_N_SAMPLES} :
            mem'.hdr[f] = mem.hdr[f]
       /\ mem'.audio = mem.audio
       /\ mem'.grid = mem.grid]_vars

\* setAudioParams refused a sample count and the configured values are kept,
\* with a computed grid in memory.
C4_Witness ==
  /\ call.name = "setAudioParams"
  /\ UGt(call.args.nSamples, MAX_AUDIO_SAMPLES)
  /\ getStatus = STATUS_ERROR
  /\ getSampleRate = 8 * ONE /\ getNSamples = 3
  /\ call.args.sampleRate = 0
  /\ mem.grid # Empty

\* ------------------------------------------------------------------------
\* The range computeCWT.
\* ------------------------------------------------------------------------

RangeCalled == engine \in RangeEngines /\ call.name = "computeCWT"

Stores(zones) == {r \in rlog : r.op = "store" /\ r.zone \in zones}

\* C5: the range computeCWT returns -2 and stores nothing in the output zone
\* or the kernel scratch zone whenever tEnd <= tStart or numFreqs <= 0.
C5_InvalidRangeRejected ==
  RangeCalled /\ (call.args.tEnd <= call.args.tStart \/ call.args.numFreqs <= 0) =>
    ret = Returned(-2) /\ Stores({"output", "kernel"}) = {}

\* The capacity of the output zone of the build.
OutputCapacity ==
  IF engine = "part5" THEN MEM_LIMIT - OUTPUT_PTR ELSE AVAILABLE_OUTPUT_MEM(engine)

\* (tEnd - tStart) * numFreqs * 4 exceeds the capacity cap, in the integers.
Oversize(a, cap) ==
  /\ a.numFreqs > 0
  /\ a.tStart >= 0
  /\ a.tEnd > a.tStart
  /\ a.tEnd - a.tStart > cap \div (4 * a.numFreqs)

\* C6: the range computeCWT returns -1 and stores nothing whenever
\* (tEnd - tStart) * numFreqs * 4 bytes, computed without wraparound, exceeds
\* the capacity of the output zone.
C6_OversizeRejected ==
  RangeCalled /\ Oversize(call.args, OutputCapacity) =>
    ret = Returned(-1) /\ Stores({"output", "kernel", "debug"}) = {}

\* ------------------------------------------------------------------------
\* clearCWT, the two modes and the zones.
\* ------------------------------------------------------------------------

ClearStep == nCalls' = nCalls + 1 /\ call'.name = "clearCWT"

\* C7: after clearCWT(nFreqs, nTimeOut) the status is Idle, the progress and
\* the max-magnitude are 0.0 and each of the first nFreqs * nTimeOut output
\* cells is zero, and the sample rate, the sample count and the audio zone
\* are as before.
C7_ClearCWT ==
  [][ClearStep =>
       /\ getStatus' = STATUS_IDLE
       /\ getProgress' = 0
       /\ getMaxMag' = 0
       /\ \A i \in DOMAIN mem'.grid : i \div call'.args.nTimeOut >= call'.args.nFreqs
       /\ getSampleRate' = getSampleRate
       /\ getNSamples' = getNSamples
       /\ mem'.audio = mem.audio]_vars

\* The host calls computeSingleFreq for row fi of the batch it has just
\* run, with the frequency of that row as an f32 and the other parameters
\* of the batch.
RowOfBatchStep(fi) ==
  /\ snap.valid
  /\ snap.mem = mem
  /\ nCalls' = nCalls + 1
  /\ call'.name = "computeSingleFreq"
  /\ call'.args = [freqIndex |-> fi,
                   freq |-> ToF32(BatchFreq(snap.args, fi)),
                   omega0 |-> snap.args.omega0,
                   timeStep |-> snap.args.timeStep,
                   nTimeOut |-> getNTimeOut]

C9_StoresInsideZones ==
  /\ engine \in {"cwt", "index"} =>
       /\ \A r \in Stores({"kernel"}) :
            r.lo >= PTR_KERNEL(engine) /\ r.hi < PTR_KERNEL(engine) + KERNEL_BUFFER_SIZE
       /\ \A r \in Stores({"output"}) :
            r.lo >= PTR_OUTPUT(engine) /\ r.hi < MAX_MEMORY_LIMIT
       /\ ret # Trapped
  /\ engine = "backup" =>
       \A c \in cellLog : c.addr >= CWT_START /\ c.addr + 4 <= MEMORY_BYTES

\* C10 as stated: the convolution loads an audio value only at an index in
\* [0, sampleCount), the sample count of the job, in every build.
C10_LoadsBelowSampleCount ==
  /\ \A c \in cellLog : \A t \in c.loads : 0 <= t /\ t < getNSamples
  /\ \A r \in rlog : r.op = "load" => 0 <= r.lo /\ r.hi < hostLen

\* C10: in cwt-backup.ts the convolution loads an audio value only at an
\* index t with 0 <= t < nSamples, the sample count the call read from the
\* header; in the range computeCWT it loads only at an index in [0,
\* 14400000), the capacity of the audio zone, whatever the number of samples
\* the host wrote.
C10_ZeroPadding ==
  /\ \A c \in cellLog : \A t \in c.loads : 0 <= t /\ t < c.nSamples
  /\ \A r \in rlog : r.op = "load" => 0 <= r.lo /\ r.hi < SAMPLE_LIMIT

\* A cell of cwt-backup.ts whose window reaches past both ends of a signal
\* of three samples, and a range call whose window starts before sample 0.
C10_Witness ==
  \/ \E c \in cellLog : c.nSamples = 3 /\ c.loads = {0, 1, 2}
  \/ \E r \in rlog : r.op = "load" /\ r.lo = 0 /\ call.args.tStart = 5 /\ r.hi > 8

\* ------------------------------------------------------------------------
\* The time grid of the batch computeCWT.
\* ------------------------------------------------------------------------

\* ceil(n / d) for the unsigned values n in [1, 2^31) and d >= 1.
CeilDivU(n, d) == IF d < 0 THEN 1 ELSE n \div d + (IF n % d = 0 THEN 0 ELSE 1)

\* The batch computeCWT has passed its validation and recorded its counts.
BatchRunning == call.name = "computeCWT" /\ pc \in {"rows", "maxStored"}

\* C11: for a sample count >= 1 and a time step >= 1 the batch computeCWT
\* records nTimeOut = ceil(sampleCount / timeStep), and each output column
\* ti is centred on the sample ti * timeStep, which lies in [0, sampleCount).
C11_TimeGrid ==
  BatchRunning /\ loc.nSamples > 0 /\ call.args.timeStep # 0 =>
    /\ getNTimeOut = CeilDivU(loc.nSamples, call.args.timeStep)
    /\ \A c \in cellLog :
         c.t0 = c.ti * call.args.timeStep /\ 0 <= c.t0 /\ c.t0 < loc.nSamples

\* ------------------------------------------------------------------------
\* computeSingleFreq.
\* ------------------------------------------------------------------------

SingleStep == nCalls' = nCalls + 1 /\ call'.name = "computeSingleFreq"

\* The cells of row freqIndex: freqIndex * nTimeOut + ti for ti < nTimeOut.
RowCells(a) == {a.freqIndex * a.nTimeOut + ti : ti \in 0..(a.nTimeOut - 1)}

\* The maximum of a finite set of numbers that holds 0.
MaxOf(S) == CHOOSE x \in S : \A y \in S : y <= x

\* C12: computeSingleFreq stores to exactly the nTimeOut cells of row
\* freqIndex, leaves every other output cell and every header field
\* unchanged, and returns the maximum of the values it stored (0 when
\* nTimeOut is 0).
C12_SingleFreqFrame ==
  [][SingleStep =>
       LET a == call'.args
       IN  /\ ret'.kind = "return"
           /\ \A c \in cellLog' : c.addr >= CWT_START
           /\ {(c.addr - CWT_START) \div 4 : c \in cellLog'} = RowCells(a)
           /\ \A i \in (DOMAIN mem.grid \cup DOMAIN mem'.grid) \ RowCells(a) :
                Get(mem'.grid, i) = Get(mem.grid, i)
           /\ mem'.hdr = mem.hdr
           /\ ret'.value = MaxOf({Get(mem'.grid, i) : i \in RowCells(a)} \cup {0})]_vars

\* ------------------------------------------------------------------------
\* The max-magnitude and the progress of the batch computeCWT.
\* ------------------------------------------------------------------------

\* The value in the output grid at the cell a call stored to.
Stored(c) == Get(mem.grid, (c.addr - CWT_START) \div 4)

\* C13: when the batch computeCWT ends with the status Done, the
\* max-magnitude field is the maximum of the cells the call stored (0.0 if
\* it stored none) and each cell holds its raw magnitude.
C13_MaxMagnitude ==
  BatchDone =>
    /\ getMaxMag = MaxOf({Stored(c) : c \in cellLog} \cup {0})
    /\ \A c \in cellLog :
         Stored(c) = Magnitude(mem, loc.sampleRate, loc.nSamples, call.args.omega0,
                               BatchFreq(call.args, c.fi), c.t0)

\* A finished batch whose largest cell is neither zero nor the last one
\* stored.
C13_Witness ==
  /\ BatchDone
  /\ Cardinality(cellLog) = 4
  /\ getMaxMag > 0
  /\ \E c \in cellLog : c.fi = 1 /\ c.ti = 1 /\ Stored(c) > 0 /\ Stored(c) < getMaxMag

\* rows / nFreqs as an f32 (0.0 for an empty grid).
RowsDone(rows, nFreqs) ==
  IF nFreqs = 0 THEN 0 ELSE ToF32(RoundDiv(rows * ONE, nFreqs))

\* C14: during a batch computeCWT the progress is 0.0 on entry, is (rows
\* completed) / nFreqs after each completed row, never decreases, stays in
\* [0, 1], and no cell of a row is stored once the progress reports that
\* row complete.
C14_Progress ==
  [][/\ pc = "host" /\ pc' = "entered" => getProgress' = 0
     /\ pc # "host" =>
          getProgress' >= getProgress /\ 0 <= getProgress' /\ getProgress' <= ONE
     /\ pc' = "rows" => getProgress' = RowsDone(loc'.fi, loc'.nFreqs)
     /\ pc = "rows" =>
          \A c \in cellLog' \ cellLog :
            c.fi = loc.fi /\ getProgress * loc.nFreqs < (c.fi + 1) * ONE]_vars

\* The batch is storing the second row, with the progress at one half.
C14_Witness ==
  /\ BatchRunning
  /\ pc = "rows"
  /\ loc.fi = 1 /\ loc.ti = 1
  /\ getProgress = ONE \div 2
  /\ Cardinality(cellLog) = 3

\* ------------------------------------------------------------------------
\* The validation of the batch computeCWT.
\* ------------------------------------------------------------------------

\* The header fields a batch records, and the output grid, are as before.
BatchFieldsKept ==
  /\ \A f \in {HEADER_FREQ_MIN, HEADER_FREQ_MAX, HEADER_OMEGA0, HEADER_TIME_STEP,
               HEADER_N_FREQS, HEADER_N_TIME_OUT, HEADER_MAX_MAG} :
       mem'.hdr[f] = mem.hdr[f]
  /\ mem'.grid = mem.grid

\* C15: a batch computeCWT whose validation fails (stored sample rate <= 0
\* or stored sample count = 0) ends with the status Error, stores no output
\* cell and leaves freqMin, freqMax, omega0, timeStep, the two counts and
\* the max-magnitude as they were before the call.
C15_ValidationFailure ==
  [][/\ pc = "host" /\ pc' = "entered" => BatchFieldsKept
     /\ pc = "entered" /\ (getSampleRate <= 0 \/ getNSamples = 0) =>
          /\ getStatus' = STATUS_ERROR
          /\ pc' = "host"
          /\ ret' = Returned(0)
          /\ cellLog' = {}
          /\ BatchFieldsKept]_vars

\* A batch has failed its validation and the header does not hold its
\* arguments.
C15_Witness ==
  /\ call.name = "computeCWT"
  /\ pc = "host"
  /\ getStatus = STATUS_ERROR
  /\ getSampleRate = 0 /\ getNSamples = 3
  /\ call.args.freqMin = ONE /\ mem.hdr[HEADER_FREQ_MIN] = 0
  /\ call.args.timeStep = 2 /\ mem.hdr[HEADER_TIME_STEP] = 0

\* ------------------------------------------------------------------------
\* The memory layout of the range builds.
\* ------------------------------------------------------------------------

\* C16: the byte ranges behind the exported base pointers (audio, frequency
\* list, kernel scratch, output grid and the diagnostic area) are pairwise
\* non-overlapping and lie below MAX_MEMORY_LIMIT, so that no store through
\* the diagnostic pointer lands in the output zone.
C16_ZonesDisjoint ==
  engine \in {"cwt", "index"} =>
    /\ \A z \in Zones(engine) : 0 <= z.base /\ z.base < z.end /\ z.end <= MAX_MEMORY_LIMIT
    /\ \A y, z \in Zones(engine) : y # z => y.end <= z.base \/ z.end <= y.base
    /\ \A d \in Stores({"debug"}) :
         d.hi < PTR_OUTPUT(engine) \/ d.lo >= PTR_OUTPUT(engine) + AVAILABLE_OUTPUT_MEM(engine)

\* ------------------------------------------------------------------------
\* The order of the per-frequency calls.
\* ------------------------------------------------------------------------

\* How a computeSingleFreq run ends for the host.
SingleRet(r) == IF r.trap THEN Trapped ELSE Returned(r.maxMag)

\* computeSingleFreq(a) leaves a positive sample rate (the calls the model
\* follows run on one).
LeavesRate(m, a) == SingleFreqRun(m, a).mem.hdr[HEADER_SAMPLE_RATE] > 0

\* computeSingleFreq(a) and then computeSingleFreq(b) from the memory m: the
\* grid they leave and what each returns.
InOrder(m, a, b) ==
  LET ra == SingleFreqRun(m, a)
      rb == SingleFreqRun(ra.mem, b)
  IN  [grid |-> rb.mem.grid, retA |-> SingleRet(ra), retB |-> SingleRet(rb)]

\* C17: two computeSingleFreq calls with distinct frequency indices and the
\* same nTimeOut leave the same output grid and return the same row maxima
\* in either order.
C17_RowsIndependent ==
  engine = "backup" /\ pc = "host" /\ getSampleRate > 0 =>
    \A a, b \in SingleArgs :
      a.freqIndex # b.freqIndex /\ a.nTimeOut = b.nTimeOut
        /\ LeavesRate(mem, a) /\ LeavesRate(mem, b) =>
          /\ InOrder(mem, a, b).grid = InOrder(mem, b, a).grid
          /\ InOrder(mem, a, b).retA = InOrder(mem, b, a).retB
          /\ InOrder(mem, a, b).retB = InOrder(mem, b, a).retA

\* ------------------------------------------------------------------------
\* How a batch ends.
\* ------------------------------------------------------------------------

\* C18: every batch computeCWT call that has begun and is over has returned
\* to the host (it did not stop in a trap), and the status it leaves is Done
\* or Error, never Running, whatever its arguments (timeStep = 0 and
\* freqMax <= freqMin included).
C18_BatchReturns ==
  call.name = "computeCWT" /\ engine = "backup" /\ pc = "host" =>
    /\ ret.kind = "return"
    /\ getStatus \in {STATUS_DONE, STATUS_ERROR}

\* C19: whenever a batch computeCWT call leaves the status at Done, the
\* progress field is 1.0, for every derived frequency count, zero included.
C19_DoneProgress ==
  BatchDone /\ ret.kind = "return" => getProgress = ONE
====
